---- MODULE Spec2Model ----
(***************************************************************************)
(* Model of lib/vector-core/src/schema/definition.rs: the schema           *)
(* Definition (kind + meaning map + log namespaces), its MeaningPointer    *)
(* sum type, the builder calls and Definition::merge.                      *)
(*                                                                         *)
(* The structural type `Kind` and the path type `LookupBuf` live in other  *)
(* crates of the repository (value, lookup); they are modelled here from   *)
(* the interface the specification gives for them.                         *)
(***************************************************************************)
EXTENDS Naturals, Sequences, FiniteSets, TLC

VARIABLES
    this,    \* the Definition a component is building: Some(d), or None once
             \* a call on it has panicked
    last,    \* the call made last: its name, arguments, receiver and outcome
    nops,    \* number of calls made so far
    ptrs,    \* MeaningPointer::merge on its own: the three input pointers
    pout     \* MeaningPointer::merge on its own: the last results computed

vars == <<this, last, nops, ptrs, pout>>

(***************************************************************************)
(* Bounds of the model.                                                    *)
(***************************************************************************)
\* number of builder and merge calls made on one Definition
MaxOps == 2

\* meaning identifiers
Names == {"x", "y"}

\* a coalesced segment, `.(a | b)`
CoalescedSeg == "(a|b)"

\* LookupBuf values: the root, fields, a nested field, a coalesced path
Root == <<>>
PlainPaths == {Root, <<"a">>, <<"b">>, <<"a", "b">>}
Paths == PlainPaths \cup {<<CoalescedSeg>>}

\* LogNamespace
Legacy == "Legacy"
Vector == "Vector"
LogNamespace == {Legacy, Vector}

\* scalar shapes of a Kind
Prims == {"bytes", "boolean", "null"}

(***************************************************************************)
(* Option<T>                                                               *)
(***************************************************************************)
None == [some |-> FALSE]
Some(v) == [some |-> TRUE, val |-> v]

(***************************************************************************)
(* LookupBuf                                                               *)
(***************************************************************************)
is_root(path) == path = Root

IsCoalesced(path) == \E i \in 1..Len(path) : path[i] = CoalescedSeg

(***************************************************************************)
(* Kind: scalar shapes, an optional object collection and an optional      *)
(* array collection.  A collection has known fields and a catch-all type   *)
(* for the fields it does not declare.                                     *)
(***************************************************************************)
EmptyMap == [f \in {} |-> {}]

UnkNone == [tag |-> "none", prim |-> {}]
UnkAny == [tag |-> "any", prim |-> {}]
UnkExact(ps) == [tag |-> "exact", prim |-> ps]

NoColl == [some |-> FALSE, known |-> EmptyMap, unknown |-> UnkNone]
Collection_empty == [some |-> TRUE, known |-> EmptyMap, unknown |-> UnkNone]
Collection_any == [some |-> TRUE, known |-> EmptyMap, unknown |-> UnkAny]

Kind_never == [prim |-> {}, object |-> NoColl, array |-> NoColl]
Kind_any == [prim |-> Prims, object |-> Collection_any, array |-> Collection_any]
Kind_object(coll) == [prim |-> {}, object |-> coll, array |-> NoColl]
Kind_any_object == Kind_object(Collection_any)
Kind_boolean == [prim |-> {"boolean"}, object |-> NoColl, array |-> NoColl]
Kind_bytes == [prim |-> {"bytes"}, object |-> NoColl, array |-> NoColl]

or_null(kind) == [kind EXCEPT !.prim = @ \cup {"null"}]

\* Kind::into_object: the object collection, if the kind can be an object
into_object(kind) == IF kind.object.some THEN Some(kind.object) ELSE None

\* unknown (catch-all) kinds of the model's inputs: Option<Kind>, scalar kinds
UnknownOf(optKind) ==
    IF ~optKind.some THEN UnkNone
    ELSE IF optKind.val = Kind_any THEN UnkAny
    ELSE UnkExact(optKind.val.prim)

set_unknown(coll, optKind) == [coll EXCEPT !.unknown = UnknownOf(optKind)]

\* Kind::insert_at_path with InnerConflict::Replace, LeafConflict::Replace,
\* CoalescedPath::Reject.  The result is Some(kind) or, on a rejected path,
\* None.
RECURSIVE InsertPlain(_, _, _)
InsertPlain(self, path, kind) ==
    IF path = <<>> THEN kind
    ELSE LET f == Head(path)
             coll == IF self.object.some THEN self.object ELSE Collection_empty
             child == IF f \in DOMAIN coll.known THEN coll.known[f] ELSE Kind_never
             new == InsertPlain(child, Tail(path), kind)
             known == [g \in DOMAIN coll.known \cup {f} |->
                          IF g = f THEN new ELSE coll.known[g]]
         IN  Kind_object([coll EXCEPT !.known = known])

insert_at_path(self, path, kind) ==
    IF IsCoalesced(path) THEN None ELSE Some(InsertPlain(self, path, kind))

\* Kind::find_known_at_path: Ok(Some(kind)) for a path through known fields,
\* Ok(None) for a path that leaves them, Err for a coalesced path.  The
\* result is the caller's `.ok().flatten()`.
RECURSIVE FindPlain(_, _)
FindPlain(self, path) ==
    IF path = <<>> THEN Some(self)
    ELSE IF self.object.some /\ Head(path) \in DOMAIN self.object.known
         THEN FindPlain(self.object.known[Head(path)], Tail(path))
         ELSE None

find_known_at_path(self, path) ==
    IF IsCoalesced(path) THEN None ELSE FindPlain(self, path)

\* Kind::merge with Depth::Deep, Indices::Keep
Unknown_merge(a, b) ==
    IF a.tag = "none" THEN b
    ELSE IF b.tag = "none" THEN a
    ELSE IF a.tag = "any" \/ b.tag = "any" THEN UnkAny
    ELSE UnkExact(a.prim \cup b.prim)

RECURSIVE Kind_merge(_, _)
Collection_merge(a, b) ==
    IF ~a.some THEN b
    ELSE IF ~b.some THEN a
    ELSE [some |-> TRUE,
          known |-> [f \in DOMAIN a.known \cup DOMAIN b.known |->
                        IF f \in DOMAIN a.known /\ f \in DOMAIN b.known
                        THEN Kind_merge(a.known[f], b.known[f])
                        ELSE IF f \in DOMAIN a.known THEN a.known[f]
                        ELSE b.known[f]],
          unknown |-> Unknown_merge(a.unknown, b.unknown)]

Kind_merge(a, b) ==
    [prim |-> a.prim \cup b.prim,
     object |-> Collection_merge(a.object, b.object),
     array |-> Collection_merge(a.array, b.array)]

(***************************************************************************)
(* MeaningPointer                                                          *)
(***************************************************************************)
Valid(path) == [tag |-> "Valid", path |-> path, paths |-> {}]
Invalid(set) == [tag |-> "Invalid", path |-> Root, paths |-> set]

\* MeaningPointer::merge with the (Valid, Invalid) arm returning rhs without
\* `rhs.insert(lhs)`
MeaningPointer_merge_no_insert(self, other) ==
    IF self.tag = "Valid" /\ other.tag = "Valid" /\ self.path = other.path
    THEN Valid(self.path)
    ELSE LET set ==
                 IF self.tag = "Valid" /\ other.tag = "Valid"
                 THEN {self.path, other.path}
                 ELSE IF self.tag = "Valid" /\ other.tag = "Invalid"
                 THEN other.paths
                 ELSE IF self.tag = "Invalid" /\ other.tag = "Valid"
                 THEN self.paths \cup {other.path}
                 ELSE self.paths \cup other.paths
         IN  Invalid(set)

\* MeaningPointer::merge with the first arm's guard `if lhs == rhs` dropped:
\* two Valid pointers always merge to the first one
MeaningPointer_merge_first_wins(self, other) ==
    IF self.tag = "Valid" /\ other.tag = "Valid"
    THEN Valid(self.path)
    ELSE LET set ==
                 IF self.tag = "Valid" /\ other.tag = "Invalid"
                 THEN other.paths \cup {self.path}
                 ELSE IF self.tag = "Invalid" /\ other.tag = "Valid"
                 THEN self.paths \cup {other.path}
                 ELSE self.paths \cup other.paths
         IN  Invalid(set)

\* MeaningPointer::merge without its first arm: two Valid pointers always
\* merge to Invalid
MeaningPointer_merge_no_equal_arm(self, other) ==
    LET set ==
            IF self.tag = "Valid" /\ other.tag = "Valid"
            THEN {self.path, other.path}
            ELSE IF self.tag = "Valid" /\ other.tag = "Invalid"
            THEN other.paths \cup {self.path}
            ELSE IF self.tag = "Invalid" /\ other.tag = "Valid"
            THEN self.paths \cup {other.path}
            ELSE self.paths \cup other.paths
    IN  Invalid(set)

\* MeaningPointer::merge with the (Invalid, Invalid) arm returning lhs without
\* `lhs.extend(rhs)`
MeaningPointer_merge_no_extend(self, other) ==
    IF self.tag = "Valid" /\ other.tag = "Valid" /\ self.path = other.path
    THEN Valid(self.path)
    ELSE LET set ==
                 IF self.tag = "Valid" /\ other.tag = "Valid"
                 THEN {self.path, other.path}
                 ELSE IF self.tag = "Valid" /\ other.tag = "Invalid"
                 THEN other.paths \cup {self.path}
                 ELSE IF self.tag = "Invalid" /\ other.tag = "Valid"
                 THEN self.paths \cup {other.path}
                 ELSE self.paths
         IN  Invalid(set)

\* MeaningPointer::merge with the (Invalid, Valid) arm returning the Valid
\* pointer: the later resolution replaces the ambiguous one
MeaningPointer_merge_downgrade(self, other) ==
    IF self.tag = "Valid" /\ other.tag = "Valid" /\ self.path = other.path
    THEN Valid(self.path)
    ELSE IF self.tag = "Invalid" /\ other.tag = "Valid"
    THEN Valid(other.path)
    ELSE LET set ==
                 IF self.tag = "Valid" /\ other.tag = "Valid"
                 THEN {self.path, other.path}
                 ELSE IF self.tag = "Valid" /\ other.tag = "Invalid"
                 THEN other.paths \cup {self.path}
                 ELSE self.paths \cup other.paths
         IN  Invalid(set)

\* MeaningPointer::merge
MeaningPointer_merge(self, other) ==
    IF self.tag = "Valid" /\ other.tag = "Valid" /\ self.path = other.path
    THEN Valid(self.path)
    ELSE LET set ==
                 IF self.tag = "Valid" /\ other.tag = "Valid"
                 THEN {self.path, other.path}
                 ELSE IF self.tag = "Valid" /\ other.tag = "Invalid"
                 THEN other.paths \cup {self.path}
                 ELSE IF self.tag = "Invalid" /\ other.tag = "Valid"
                 THEN self.paths \cup {other.path}
                 ELSE self.paths \cup other.paths
         IN  Invalid(set)

(***************************************************************************)
(* BTreeMap<String, MeaningPointer>                                        *)
(***************************************************************************)
map_get(map, key) == IF key \in DOMAIN map THEN Some(map[key]) ELSE None

map_insert(map, key, value) ==
    [k \in DOMAIN map \cup {key} |-> IF k = key THEN value ELSE map[k]]

map_remove(map, key) == [k \in DOMAIN map \ {key} |-> map[k]]

(***************************************************************************)
(* Definition                                                              *)
(***************************************************************************)
Definition(kind, meaning, log_namespaces) ==
    [kind |-> kind, meaning |-> meaning, log_namespaces |-> log_namespaces]

empty == Definition(Kind_object(Collection_empty), EmptyMap, {})

empty_kind(kind, log_namespaces) == Definition(kind, EmptyMap, log_namespaces)

any == empty_kind(Kind_any, {Legacy, Vector})

legacy_default == empty_kind(Kind_any_object, {Legacy})

\* Definition::default_for_namespace with the (true, false) arm building the
\* `any` kind like the other arms
default_for_namespace_legacy_any(log_namespaces) ==
    empty_kind(Kind_any, log_namespaces \cap {Legacy, Vector})

default_for_namespace(log_namespaces) ==
    LET is_legacy == Legacy \in log_namespaces
        is_vector == Vector \in log_namespaces
    IN  IF ~is_legacy /\ ~is_vector THEN empty_kind(Kind_any, {})
        ELSE IF is_legacy /\ ~is_vector THEN legacy_default
        ELSE IF ~is_legacy /\ is_vector THEN empty_kind(Kind_any, {Vector})
        ELSE empty_kind(Kind_any, {Legacy, Vector})

log_namespaces(self) == self.log_namespaces

kind(self) == self.kind

\* the registration step with `entry(meaning).or_insert(..)` for `insert`:
\* an existing pointer is kept
RegisterMeaning_keep_existing(map, meaning, path) ==
    IF meaning.some /\ ~(meaning.val \in DOMAIN map)
    THEN map_insert(map, meaning.val, Valid(path))
    ELSE map

\* the registration step left out: the meaning is dropped
RegisterMeaning_dropped(map, meaning, path) == map

\* the registration step of with_field: `if let Some(meaning) = meaning`
RegisterMeaning(map, meaning, path) ==
    IF meaning.some THEN map_insert(map, meaning.val, Valid(path)) ELSE map

\* Definition::with_field with the guard `if !path.is_root()` lost: the kind
\* is coerced to an object for every path
with_field_always_object(self, path, k, meaning) ==
    LET obj == into_object(self.kind)
    IN  IF ~obj.some THEN None
        ELSE LET ins == insert_at_path(Kind_object(obj.val), path, k)
             IN  IF ~ins.some THEN None
                 ELSE Some(Definition(ins.val,
                                      RegisterMeaning(self.meaning, meaning, path),
                                      self.log_namespaces))

\* Definition::with_field registering into a fresh map instead of
\* self.meaning
with_field_fresh_meanings(self, path, k, meaning) ==
    LET obj == into_object(self.kind)
    IN  IF ~is_root(path) /\ ~obj.some THEN None
        ELSE LET k1 == IF ~is_root(path) THEN Kind_object(obj.val) ELSE self.kind
                 ins == insert_at_path(k1, path, k)
             IN  IF ~ins.some THEN None
                 ELSE Some(Definition(ins.val,
                                      RegisterMeaning(EmptyMap, meaning, path),
                                      self.log_namespaces))

\* Definition::with_field.  None is a panic, Some(d) the returned value.
with_field(self, path, k, meaning) ==
    LET obj == into_object(self.kind)
    IN  IF ~is_root(path) /\ ~obj.some THEN None
        ELSE LET k1 == IF ~is_root(path) THEN Kind_object(obj.val) ELSE self.kind
                 ins == insert_at_path(k1, path, k)
             IN  IF ~ins.some THEN None
                 ELSE Some(Definition(ins.val,
                                      RegisterMeaning(self.meaning, meaning, path),
                                      self.log_namespaces))

\* Definition::optional_field
optional_field(self, path, k, meaning) ==
    with_field(self, path, or_null(k), meaning)

\* Definition::with_known_meaning without its assert!
with_known_meaning_unchecked(self, path, meaning) ==
    Some(Definition(self.kind,
                    map_insert(self.meaning, meaning, Valid(path)),
                    self.log_namespaces))

\* Definition::with_known_meaning.  None is a panic (the failed assert!).
with_known_meaning(self, path, meaning) ==
    IF ~find_known_at_path(self.kind, path).some THEN None
    ELSE Some(Definition(self.kind,
                         map_insert(self.meaning, meaning, Valid(path)),
                         self.log_namespaces))

\* Definition::unknown_fields without the `as_array_mut` step
unknown_fields_object_only(self, unknown) ==
    LET k1 == IF self.kind.object.some
              THEN [self.kind EXCEPT !.object = set_unknown(@, unknown)]
              ELSE self.kind
    IN  Definition(k1, self.meaning, self.log_namespaces)

\* Definition::unknown_fields
unknown_fields(self, unknown) ==
    LET k1 == IF self.kind.object.some
              THEN [self.kind EXCEPT !.object = set_unknown(@, unknown)]
              ELSE self.kind
        k2 == IF k1.array.some
              THEN [k1 EXCEPT !.array = set_unknown(@, unknown)]
              ELSE k1
    IN  Definition(k2, self.meaning, self.log_namespaces)

\* the loop body with the `None => other_meaning` arm lost: a meaning that
\* only `other` holds is not taken over
MergeEntry_skip_new(map, other_id, other_meaning) ==
    LET removed == map_get(map, other_id)
    IN  IF removed.some
        THEN map_insert(map_remove(map, other_id), other_id,
                        MeaningPointer_merge(removed.val, other_meaning))
        ELSE map

\* the loop body without `self.meaning.insert(other_id, meaning)`: the entry
\* taken out by `remove` is not put back
MergeEntry_no_reinsert(map, other_id, other_meaning) ==
    map_remove(map, other_id)

\* one iteration of the loop of Definition::merge over other.meaning
MergeEntry(map, other_id, other_meaning) ==
    LET removed == map_get(map, other_id)
        rest == map_remove(map, other_id)
        meaning == IF removed.some
                   THEN MeaningPointer_merge(removed.val, other_meaning)
                   ELSE other_meaning
    IN  map_insert(rest, other_id, meaning)

\* the loop of Definition::merge: `for (other_id, other_meaning) in other.meaning`
RECURSIVE MergeMeanings(_, _)
MergeMeanings(map, other) ==
    IF DOMAIN other = {} THEN map
    ELSE LET other_id == CHOOSE k \in DOMAIN other : TRUE
         IN  MergeMeanings(MergeEntry(map, other_id, other[other_id]),
                           map_remove(other, other_id))

\* Definition::merge without `self.kind.merge(other.kind, ..)`: the kind of
\* self is kept
Definition_merge_keeps_kind(self, other) ==
    Definition(self.kind,
               MergeMeanings(self.meaning, other.meaning),
               self.log_namespaces)

\* Definition::merge that also takes over the namespaces of `other`
Definition_merge_unions_namespaces(self, other) ==
    Definition(Kind_merge(self.kind, other.kind),
               MergeMeanings(self.meaning, other.meaning),
               self.log_namespaces \cup other.log_namespaces)

\* Definition::merge
Definition_merge(self, other) ==
    Definition(Kind_merge(self.kind, other.kind),
               MergeMeanings(self.meaning, other.meaning),
               self.log_namespaces)

\* Definition::meaning_path with the Invalid arm returning a path as well
meaning_path_any_pointer(self, meaning) ==
    LET got == map_get(self.meaning, meaning)
    IN  IF got.some
        THEN Some(IF got.val.tag = "Valid" THEN got.val.path
                  ELSE CHOOSE p \in got.val.paths : TRUE)
        ELSE None

\* Definition::meaning_path
meaning_path(self, meaning) ==
    LET got == map_get(self.meaning, meaning)
    IN  IF got.some /\ got.val.tag = "Valid" THEN Some(got.val.path) ELSE None

\* Definition::invalid_meaning
invalid_meaning(self, meaning) ==
    LET got == map_get(self.meaning, meaning)
    IN  IF got.some /\ got.val.tag = "Invalid" THEN Some(got.val.paths) ELSE None

\* the meaning identifiers in the order a BTreeMap<String, _> iterates them
SortedNames == <<"x", "y">>

\* BTreeMap::iter: the entries (id, pointer) in key order
map_iter(map) ==
    LET keys == SelectSeq(SortedNames, LAMBDA n : n \in DOMAIN map)
    IN  [i \in 1..Len(keys) |-> <<keys[i], map[keys[i]]>>]

\* Definition::meanings with `iter().map(..)`: no entry is filtered out
meanings_unfiltered(self) ==
    LET entries == map_iter(self.meaning)
    IN  [i \in 1..Len(entries) |->
            <<entries[i][1],
              IF entries[i][2].tag = "Valid" THEN entries[i][2].path
              ELSE CHOOSE p \in entries[i][2].paths : TRUE>>]

\* Definition::meanings: the sequence the iterator yields
meanings(self) ==
    LET valid == SelectSeq(map_iter(self.meaning),
                           LAMBDA e : e[2].tag = "Valid")
    IN  [i \in 1..Len(valid) |-> <<valid[i][1], valid[i][2].path>>]

(***************************************************************************)
(* The values the calls are given.                                         *)
(***************************************************************************)
FieldKinds == {Kind_boolean, Kind_bytes}
RootKinds == {Kind_object(Collection_empty), Kind_boolean}
UnknownKinds == {None, Some(Kind_any), Some(Kind_boolean)}
Meanings == {None} \cup {Some(n) : n \in Names}

\* the constructor calls: the constructor, its arguments and what it returns
ConstructorCalls ==
    {[ctor |-> "empty", kind |-> Kind_never, ns |-> {}, res |-> empty],
     [ctor |-> "any", kind |-> Kind_never, ns |-> {}, res |-> any],
     [ctor |-> "legacy_default", kind |-> Kind_never, ns |-> {},
      res |-> legacy_default]}
        \cup {[ctor |-> "empty_kind", kind |-> k, ns |-> ns,
               res |-> empty_kind(k, ns)] :
                  k \in RootKinds, ns \in {{}, {Legacy}}}
        \cup {[ctor |-> "default_for_namespace", kind |-> Kind_never, ns |-> ns,
               res |-> default_for_namespace(ns)] :
                  ns \in SUBSET LogNamespace}

\* what a constructor call returns
Constructed == {c.res : c \in ConstructorCalls}

\* the Definitions handed to merge as `other`: a component's output with one
\* declared field that carries a meaning, and the merge of two such outputs
OtherLeaves ==
    {with_field(empty_kind(Kind_object(Collection_empty), {Vector}),
                path, Kind_boolean, Some(n)).val :
         path \in PlainPaths \ {Root}, n \in Names}

\* a component's output with one field declared optional
OptionalLeaves ==
    {optional_field(empty_kind(Kind_object(Collection_empty), {Vector}),
                    path, Kind_boolean, None).val :
         path \in {<<"a">>, <<"a", "b">>}}

Others ==
    OtherLeaves
        \cup {Definition_merge(a, b) : a, b \in OtherLeaves}
        \cup OptionalLeaves

(***************************************************************************)
(* The calls on the Definition being built.                                *)
(***************************************************************************)
Call(op, res, path, k, meaning, oth) ==
    /\ this.some
    /\ nops < MaxOps
    /\ nops' = nops + 1
    /\ this' = res
    /\ last' = [op |-> op, ok |-> res.some, path |-> path, kind |-> k,
                meaning |-> meaning, pre |-> this, oth |-> oth]
    /\ UNCHANGED <<ptrs, pout>>

WithField ==
    \E path \in Paths, k \in FieldKinds, m \in Meanings :
        Call("with_field", with_field(this.val, path, k, m), path, k, m, None)

OptionalField ==
    \E path \in Paths, k \in {Kind_boolean}, m \in Meanings :
        Call("optional_field", optional_field(this.val, path, k, m),
             path, k, m, None)

WithKnownMeaning ==
    \E path \in Paths, n \in Names :
        Call("with_known_meaning", with_known_meaning(this.val, path, n),
             path, Kind_never, Some(n), None)

UnknownFields ==
    \E u \in UnknownKinds :
        Call("unknown_fields", Some(unknown_fields(this.val, u)),
             Root, IF u.some THEN u.val ELSE Kind_never, None, None)

\* this.merge(other)
Merge ==
    \E other \in Others :
        Call("merge", Some(Definition_merge(this.val, other)),
             Root, Kind_never, None, Some(other))

\* this.merge(this.clone())
MergeClone ==
    Call("merge", Some(Definition_merge(this.val, this.val)),
         Root, Kind_never, None, this)

\* MeaningPointer::merge not applied
NoResult == [op |-> "none"]

\* the state before any call: a Definition as a constructor returns it
NoCall ==
    [op |-> "new", ok |-> TRUE, path |-> Root, kind |-> Kind_never,
     meaning |-> None, pre |-> None, oth |-> None]

\* the state after the constructor call c
New(c) ==
    [op |-> "new", ok |-> TRUE, path |-> Root, kind |-> c.kind,
     meaning |-> None, pre |-> None, oth |-> None,
     ctor |-> c.ctor, ns |-> c.ns]

Init ==
    /\ \E c \in ConstructorCalls :
           /\ this = Some(c.res)
           /\ last = New(c)
    /\ nops = 0
    /\ ptrs = <<>>
    /\ pout = NoResult

Next ==
    \/ WithField
    \/ OptionalField
    \/ WithKnownMeaning
    \/ UnknownFields
    \/ Merge
    \/ MergeClone

Spec == Init /\ [][Next]_vars

(***************************************************************************)
(* MeaningPointer::merge on its own: three pointers are drawn, and merge   *)
(* is applied to them in both orders and in both groupings.                *)
(***************************************************************************)
Pointers ==
    {Valid(p) : p \in PlainPaths} \cup {Invalid(S) : S \in SUBSET PlainPaths}

\* merge(a, b) and merge(b, a)
PtrMergePair ==
    /\ pout' = [op |-> "pair",
                ab |-> MeaningPointer_merge(ptrs[1], ptrs[2]),
                ba |-> MeaningPointer_merge(ptrs[2], ptrs[1])]
    /\ UNCHANGED <<this, last, nops, ptrs>>

\* merge(merge(a, b), c) and merge(a, merge(b, c))
PtrMergeTriple ==
    /\ pout' = [op |-> "triple",
                ab_c |-> MeaningPointer_merge(
                             MeaningPointer_merge(ptrs[1], ptrs[2]), ptrs[3]),
                a_bc |-> MeaningPointer_merge(
                             ptrs[1], MeaningPointer_merge(ptrs[2], ptrs[3]))]
    /\ UNCHANGED <<this, last, nops, ptrs>>

InitPtr ==
    /\ this = None
    /\ last = NoCall
    /\ nops = 0
    /\ ptrs \in Pointers \X Pointers \X Pointers
    /\ pout = NoResult

NextPtr ==
    \/ PtrMergePair
    \/ PtrMergeTriple

SpecPtr == InitPtr /\ [][NextPtr]_vars

(***************************************************************************)
(* Properties of MeaningPointer::merge (checked under SpecPtr).            *)
(***************************************************************************)
IsValid(ptr) == ptr.tag = "Valid"
IsInvalid(ptr) == ptr.tag = "Invalid"

\* C1: MeaningPointer::merge is commutative: for every pair of pointers a
\* and b, each Valid(path) or Invalid(set of paths), merge(a, b) equals
\* merge(b, a).
C1_MergeCommutative ==
    pout.op = "pair" => pout.ab = pout.ba

\* a Valid pointer was merged with an Invalid one that does not hold its path
C1_Witness ==
    /\ pout.op = "pair"
    /\ IsValid(ptrs[1]) /\ IsInvalid(ptrs[2])
    /\ ptrs[1].path \notin ptrs[2].paths
    /\ Cardinality(ptrs[2].paths) = 2
    /\ IsInvalid(pout.ab)

\* C2: MeaningPointer::merge is associative: for every three pointers a, b
\* and c, merge(merge(a, b), c) equals merge(a, merge(b, c)), also when two
\* of the three are Valid with the same path.
C2_MergeAssociative ==
    pout.op = "triple" => pout.ab_c = pout.a_bc

\* a and b are Valid with the same path, c is Valid with another one
C2_Witness ==
    /\ pout.op = "triple"
    /\ IsValid(ptrs[1]) /\ IsValid(ptrs[2]) /\ IsValid(ptrs[3])
    /\ ptrs[1].path = ptrs[2].path
    /\ ptrs[3].path # ptrs[1].path
    /\ pout.ab_c = Invalid({ptrs[1].path, ptrs[3].path})

\* C5: merging Valid(p) with Invalid(S), in either argument order, yields
\* Invalid(S \cup {p}), and merging Invalid(S) with Invalid(T) yields
\* Invalid(S \cup T).
C5_MergeWithInvalid ==
    pout.op = "pair" =>
        LET a == ptrs[1]
            b == ptrs[2]
        IN  /\ (IsValid(a) /\ IsInvalid(b)) =>
                   /\ pout.ab = Invalid(b.paths \cup {a.path})
                   /\ pout.ba = Invalid(b.paths \cup {a.path})
            /\ (IsInvalid(a) /\ IsInvalid(b)) =>
                   pout.ab = Invalid(a.paths \cup b.paths)

\* Valid(p) was merged with Invalid({q, r}) and gave a set of three paths
C5_Witness ==
    /\ pout.op = "pair"
    /\ IsValid(ptrs[1]) /\ IsInvalid(ptrs[2])
    /\ Cardinality(ptrs[2].paths) = 2
    /\ Cardinality(pout.ab.paths) = 3
    /\ Cardinality(pout.ba.paths) = 3

(***************************************************************************)
(* Properties of Definition::merge and of the builder calls (checked under *)
(* Spec).  `last.pre` is the receiver before the call, `last.oth` the      *)
(* `other` a merge was given, `this` the value the call returned.          *)
(***************************************************************************)
Merged == last.op = "merge" /\ this.some

Registered ==
    /\ last.op \in {"with_field", "optional_field", "with_known_meaning"}
    /\ last.ok
    /\ last.meaning.some

HasInvalid(d, n) == n \in DOMAIN d.meaning /\ IsInvalid(d.meaning[n])

\* C3: when two Definitions bind the same meaning name to two different
\* paths p1 and p2, their merge holds Invalid({p1, p2}) for the name:
\* meaning_path is None and invalid_meaning is Some({p1, p2}).
C3_DifferentPathsInvalid ==
    Merged =>
        \A n \in Names :
            LET p1 == meaning_path(last.pre.val, n)
                p2 == meaning_path(last.oth.val, n)
            IN  (p1.some /\ p2.some /\ p1.val # p2.val) =>
                    /\ map_get(this.val.meaning, n) = Some(Invalid({p1.val, p2.val}))
                    /\ meaning_path(this.val, n) = None
                    /\ invalid_meaning(this.val, n) = Some({p1.val, p2.val})

\* a merge of two Definitions that bind one name to two different paths
C3_Witness ==
    /\ Merged
    /\ \E n \in Names :
           /\ meaning_path(last.pre.val, n).some
           /\ meaning_path(last.oth.val, n).some
           /\ meaning_path(last.pre.val, n) # meaning_path(last.oth.val, n)
           /\ invalid_meaning(this.val, n).some
           /\ Cardinality(invalid_meaning(this.val, n).val) = 2

\* C4: when two Definitions bind the same meaning name to the same path,
\* their merge holds Valid(path) for the name, not Invalid: meaning_path is
\* Some(path) and invalid_meaning is None.
C4_SamePathValid ==
    Merged =>
        \A n \in Names :
            LET p1 == meaning_path(last.pre.val, n)
                p2 == meaning_path(last.oth.val, n)
            IN  (p1.some /\ p2.some /\ p1.val = p2.val) =>
                    /\ map_get(this.val.meaning, n) = Some(Valid(p1.val))
                    /\ meaning_path(this.val, n) = Some(p1.val)
                    /\ invalid_meaning(this.val, n) = None

\* a merge of two different Definitions that bind one name to the same path
C4_Witness ==
    /\ Merged
    /\ last.oth # last.pre
    /\ \E n \in Names :
           /\ meaning_path(last.pre.val, n).some
           /\ meaning_path(last.pre.val, n) = meaning_path(last.oth.val, n)
           /\ meaning_path(this.val, n) = meaning_path(last.pre.val, n)

\* C6: Definition::merge combines the meanings as a keyed union: the names
\* of the result are the names of self and of other; a name on one side only
\* keeps that side's pointer; a name on both sides gets
\* MeaningPointer::merge(self's pointer, other's pointer).
C6_KeyedUnion ==
    Merged =>
        LET a == last.pre.val.meaning
            b == last.oth.val.meaning
            r == this.val.meaning
        IN  /\ DOMAIN r = DOMAIN a \cup DOMAIN b
            /\ \A n \in DOMAIN a \ DOMAIN b : r[n] = a[n]
            /\ \A n \in DOMAIN b \ DOMAIN a : r[n] = b[n]
            /\ \A n \in DOMAIN a \cap DOMAIN b :
                   r[n] = MeaningPointer_merge(a[n], b[n])

\* a merge in which one name is held by both sides and another by other only
C6_Witness ==
    /\ Merged
    /\ DOMAIN last.pre.val.meaning \cap DOMAIN last.oth.val.meaning # {}
    /\ DOMAIN last.oth.val.meaning \ DOMAIN last.pre.val.meaning # {}
    /\ DOMAIN this.val.meaning = Names

\* C7: merge is monotonic on ambiguity: a name that is Invalid(S) in a
\* Definition is, after a merge with that Definition on either side, still
\* Invalid with a set of paths that includes S.
C7_MergeMonotonic ==
    [][(last'.op = "merge" /\ this.some /\ this'.some) =>
           \A n \in Names :
               /\ HasInvalid(this.val, n) =>
                      /\ HasInvalid(this'.val, n)
                      /\ this.val.meaning[n].paths \subseteq this'.val.meaning[n].paths
               /\ HasInvalid(last'.oth.val, n) =>
                      /\ HasInvalid(this'.val, n)
                      /\ last'.oth.val.meaning[n].paths
                             \subseteq this'.val.meaning[n].paths]_vars

\* a merge whose receiver held an Invalid pointer, which the merge has grown
C7_Witness ==
    /\ Merged
    /\ \E n \in Names :
           /\ HasInvalid(last.pre.val, n)
           /\ HasInvalid(this.val, n)
           /\ last.pre.val.meaning[n].paths # this.val.meaning[n].paths
           /\ last.pre.val.meaning[n].paths \subseteq this.val.meaning[n].paths

\* C8: a fresh registration overwrites: after a successful with_field or
\* optional_field with Some(m), or with_known_meaning(path, m), the pointer
\* of m is Valid(path) whatever it was before.
C8_RegistrationOverwrites ==
    Registered =>
        /\ map_get(this.val.meaning, last.meaning.val) = Some(Valid(last.path))
        /\ meaning_path(this.val, last.meaning.val) = Some(last.path)
        /\ invalid_meaning(this.val, last.meaning.val) = None

\* with_field registered a meaning whose pointer was Invalid before
C8_Witness ==
    /\ Registered
    /\ last.op = "with_field"
    /\ HasInvalid(last.pre.val, last.meaning.val)
    /\ meaning_path(this.val, last.meaning.val) = Some(last.path)

\* C9: every Invalid pointer of a Definition holds at least two paths, and
\* an Invalid pointer is never produced by a builder call: a builder call
\* leaves it as it was, and a merge has it from a side that held Invalid or
\* from two non-identical pointers.
C9_InvalidHasTwoPaths ==
    this.some =>
        \A n \in DOMAIN this.val.meaning :
            IsInvalid(this.val.meaning[n]) =>
                /\ Cardinality(this.val.meaning[n].paths) >= 2
                /\ last.op # "new"
                /\ last.op # "merge" =>
                       map_get(last.pre.val.meaning, n) = Some(this.val.meaning[n])
                /\ last.op = "merge" =>
                       LET a == map_get(last.pre.val.meaning, n)
                           b == map_get(last.oth.val.meaning, n)
                       IN  \/ a.some /\ IsInvalid(a.val)
                           \/ b.some /\ IsInvalid(b.val)
                           \/ a.some /\ b.some /\ a.val # b.val

\* a builder call was made on a Definition that holds an Invalid pointer
C9_Witness ==
    /\ this.some
    /\ last.op \in {"with_field", "optional_field", "with_known_meaning",
                    "unknown_fields"}
    /\ \E n \in Names : HasInvalid(this.val, n)

\* C10: Definition::merge is idempotent: for every Definition d, also one
\* holding Invalid pointers, d.merge(copy of d) equals d in kind, meanings
\* and log_namespaces.
C10_MergeIdempotent ==
    /\ this.some => Definition_merge(this.val, this.val) = this.val
    /\ (Merged /\ last.oth = last.pre) => this = last.pre

\* a Definition holding an Invalid pointer was merged with its copy
C10_Witness ==
    /\ Merged
    /\ last.oth = last.pre
    /\ \E n \in Names : HasInvalid(last.pre.val, n)
    /\ this = last.pre

(***************************************************************************)
(* Properties of the builder calls and of the queries (checked under Spec).*)
(***************************************************************************)
\* an object-rooted Definition (its kind is an object and nothing else)
\* that holds no meanings
ObjectRooted(d) ==
    /\ d.kind.object.some
    /\ d.kind = Kind_object(d.kind.object)
    /\ d.meaning = EmptyMap

C12_KnownMeaningNeedsKnownPath ==
    last.op = "with_known_meaning" =>
        LET d == last.pre.val
            known == find_known_at_path(d.kind, last.path).some
        IN  /\ last.ok <=> known
            /\ this.some <=> known
            /\ known =>
                   /\ this.val.kind = d.kind
                   /\ this.val.log_namespaces = d.log_namespaces
                   /\ map_get(this.val.meaning, last.meaning.val)
                          = Some(Valid(last.path))

\* with_known_meaning was called with a plain path the kind does not know
C12_Witness ==
    /\ last.op = "with_known_meaning"
    /\ last.path = <<"a", "b">>
    /\ last.pre.val.kind.object.some
    /\ ~find_known_at_path(last.pre.val.kind, last.path).some
    /\ ~last.ok
    /\ ~this.some

\* with_field or optional_field was called
FieldCall == last.op \in {"with_field", "optional_field"}

\* the kind with_field / optional_field inserts
InsertedKind ==
    IF last.op = "optional_field" THEN or_null(last.kind) ELSE last.kind

\* C13: with_field with a non-root path fails fatally when the current kind
\* cannot be an object; when it can, the root is restricted to its object
\* shape before the insertion.  With the root path no coercion is made: the
\* call does not fail on a scalar root.
C13_ObjectCoercion ==
    FieldCall =>
        LET d == last.pre.val
            obj == into_object(d.kind)
        IN  /\ (~is_root(last.path) /\ ~obj.some) => (~last.ok /\ ~this.some)
            /\ (~is_root(last.path) /\ obj.some /\ last.ok) =>
                   /\ this.val.kind = Kind_object(this.val.kind.object)
                   /\ this.val.kind
                          = insert_at_path(Kind_object(obj.val),
                                           last.path, InsertedKind).val
            /\ is_root(last.path) =>
                   /\ last.ok /\ this.some
                   /\ this.val.kind = InsertedKind

\* with_field was called with the root path on a scalar root, and returned
C13_Witness ==
    /\ last.op = "with_field"
    /\ is_root(last.path)
    /\ ~into_object(last.pre.val.kind).some
    /\ last.ok
    /\ this.val.kind = last.kind

\* C14: for every Definition and meaning name, meaning_path is Some(path)
\* iff the stored pointer is Valid(path), and invalid_meaning is Some(set)
\* iff it is Invalid(set); the two are never both Some, and both are None
\* exactly when the name has no entry.
C14_QueriesMatchPointer ==
    this.some =>
        \A n \in Names :
            LET d == this.val
                got == map_get(d.meaning, n)
                mp == meaning_path(d, n)
                im == invalid_meaning(d, n)
            IN  /\ mp.some <=> (got.some /\ IsValid(got.val))
                /\ mp.some => got.val = Valid(mp.val)
                /\ im.some <=> (got.some /\ IsInvalid(got.val))
                /\ im.some => got.val = Invalid(im.val)
                /\ ~(mp.some /\ im.some)
                /\ (~mp.some /\ ~im.some) <=> ~got.some

\* a Definition that holds a Valid pointer for one name and an Invalid one
\* for the other
C14_Witness ==
    /\ this.some
    /\ \E n \in Names : meaning_path(this.val, n).some
    /\ \E n \in Names : invalid_meaning(this.val, n).some

\* C15: meanings() yields exactly the (name, path) pairs of the Valid
\* entries: (n, p) is produced iff meaning_path(n) = Some(p); names with an
\* Invalid pointer are left out, and each Valid name appears exactly once.
C15_MeaningsAreValidEntries ==
    this.some =>
        LET d == this.val
            seq == meanings(d)
        IN  /\ \A n \in Names, p \in Paths :
                   (\E i \in 1..Len(seq) : seq[i] = <<n, p>>)
                       <=> meaning_path(d, n) = Some(p)
            /\ \A i \in 1..Len(seq) :
                   /\ seq[i][1] \in Names /\ seq[i][2] \in Paths
                   /\ ~HasInvalid(d, seq[i][1])
            /\ \A i, j \in 1..Len(seq) : seq[i][1] = seq[j][1] => i = j

\* meanings() of a Definition with one Valid and one Invalid pointer yields
\* one pair
C15_Witness ==
    /\ this.some
    /\ \E n \in Names : HasInvalid(this.val, n)
    /\ \E n \in Names : meaning_path(this.val, n).some
    /\ Len(meanings(this.val)) = 1

\* C16: default_for_namespace(ns) depends only on which of Legacy and
\* Vector are in ns: it returns legacy_default() (any-object kind,
\* namespaces {Legacy}) exactly when ns = {Legacy}, and otherwise the `any`
\* kind; the result has no meanings and its log_namespaces is ns, and for
\* ns = {Legacy, Vector} it equals any().
C16_DefaultForNamespace ==
    (last.op = "new" /\ last.ctor = "default_for_namespace") =>
        LET d == this.val
        IN  /\ d.meaning = EmptyMap
            /\ log_namespaces(d) = last.ns
            /\ (last.ns = {Legacy}) <=> (d = legacy_default)
            /\ (last.ns = {Legacy}) => kind(d) = Kind_any_object
            /\ (last.ns # {Legacy}) => kind(d) = Kind_any
            /\ (last.ns = {Legacy, Vector}) => d = any

\* default_for_namespace({Legacy}) returned legacy_default()
C16_Witness ==
    /\ last.op = "new"
    /\ last.ctor = "default_for_namespace"
    /\ last.ns = {Legacy}
    /\ this = Some(legacy_default)
    /\ this.val.kind # Kind_any

(***************************************************************************)
(* Properties of the merged kind (checked under Spec).                     *)
(***************************************************************************)
\* the paths of declared fields
FieldPaths == PlainPaths \ {Root}

\* what a Definition declares at a path: required (known, without null) or
\* optional (known, with null)
RequiredAt(d, path) ==
    LET k == find_known_at_path(d.kind, path)
    IN  k.some /\ "null" \notin k.val.prim

OptionalAt(d, path) ==
    LET k == find_known_at_path(d.kind, path)
    IN  k.some /\ "null" \in k.val.prim

\* the Definition is an object without a catch-all type and does not declare
\* the path
AbsentAt(d, path) ==
    /\ d.kind = Kind_object(d.kind.object)
    /\ d.kind.object.unknown = UnkNone
    /\ ~find_known_at_path(d.kind, path).some

C18_RequiredInEitherIsRequired ==
    Merged =>
        \A path \in FieldPaths :
            (RequiredAt(last.pre.val, path) \/ RequiredAt(last.oth.val, path)) =>
                RequiredAt(this.val, path)

\* C19: in every Definition, every Valid(path) pointer references a known
\* location of the Definition's kind.
C19_ValidPathsAreKnown ==
    this.some =>
        \A n \in Names :
            meaning_path(this.val, n).some =>
                find_known_at_path(this.val.kind,
                                   meaning_path(this.val, n).val).some

\* the argument of the last unknown_fields call
LastUnknown == IF last.kind = Kind_never THEN None ELSE Some(last.kind)

\* C20: unknown_fields(u) sets the catch-all type to u on the root kind's
\* object shape and on its array shape, each when present, and changes
\* nothing on a root that is neither; the last call wins; the declared
\* fields, the scalar shapes, the meanings and log_namespaces are unchanged.
C20_UnknownFields ==
    last.op = "unknown_fields" =>
        LET d == last.pre.val
            r == this.val
            u == LastUnknown
        IN  /\ last.ok /\ this.some
            /\ r.kind.object.some <=> d.kind.object.some
            /\ r.kind.array.some <=> d.kind.array.some
            /\ d.kind.object.some =>
                   /\ r.kind.object.unknown = UnknownOf(u)
                   /\ r.kind.object.known = d.kind.object.known
            /\ d.kind.array.some =>
                   /\ r.kind.array.unknown = UnknownOf(u)
                   /\ r.kind.array.known = d.kind.array.known
            /\ (~d.kind.object.some /\ ~d.kind.array.some) => r = d
            /\ r.kind.prim = d.kind.prim
            /\ r.meaning = d.meaning
            /\ r.log_namespaces = d.log_namespaces
            /\ \A u1 \in UnknownKinds :
                   unknown_fields(unknown_fields(d, u1), u) = r

\* unknown_fields was called on a root that is both object and array, after
\* an earlier unknown_fields call with another argument
C20_Witness ==
    /\ last.op = "unknown_fields"
    /\ last.pre.val.kind.object.some
    /\ last.pre.val.kind.array.some
    /\ last.pre.val.kind.object.unknown = UnkNone
    /\ LastUnknown = Some(Kind_boolean)
    /\ this.val.kind.object.unknown = UnkExact({"boolean"})
    /\ this.val.kind.array.unknown = UnkExact({"boolean"})

\* C21: Definition::merge leaves log_namespaces untouched: the result has the
\* log_namespaces of self, whatever those of other are; the merge taken the
\* other way round has those of other, with the same meanings.
C21_MergeKeepsNamespaces ==
    Merged =>
        LET a == last.pre.val
            b == last.oth.val
            swapped == Definition_merge(b, a)
        IN  /\ log_namespaces(this.val) = log_namespaces(a)
            /\ log_namespaces(swapped) = log_namespaces(b)
            /\ swapped.meaning = this.val.meaning

\* a merge of two Definitions with different log_namespaces: a.merge(b) and
\* b.merge(a) differ in log_namespaces and agree on the meanings
C21_Witness ==
    /\ Merged
    /\ log_namespaces(last.pre.val) = {Legacy}
    /\ log_namespaces(last.oth.val) = {Vector}
    /\ log_namespaces(this.val) = {Legacy}
    /\ log_namespaces(Definition_merge(last.oth.val, last.pre.val)) = {Vector}
    /\ Definition_merge(last.oth.val, last.pre.val).meaning = this.val.meaning
    /\ this.val.meaning # EmptyMap

\* the set of meaning names of a Definition
MeaningNames(d) == DOMAIN d.meaning

\* C22: meaning names are never removed: every call that returns (with_field,
\* optional_field, with_known_meaning, unknown_fields, merge) yields a
\* Definition whose meaning names include those of the receiver and, for
\* merge, those of other.
C22_NamesNeverRemoved ==
    [][(this.some /\ this'.some) =>
           /\ MeaningNames(this.val) \subseteq MeaningNames(this'.val)
           /\ last'.op = "merge" =>
                  MeaningNames(last'.oth.val) \subseteq MeaningNames(this'.val)]_vars

\* a merge whose receiver and other each held a name the other did not: the
\* result holds both
C22_Witness ==
    /\ Merged
    /\ MeaningNames(last.pre.val) = {"x"}
    /\ MeaningNames(last.oth.val) = {"y"}
    /\ MeaningNames(this.val) = {"x", "y"}

\* the last call was a builder call that may register a meaning, and returned
RegistrationCall ==
    /\ last.op \in {"with_field", "optional_field", "with_known_meaning"}
    /\ last.ok
    /\ this.some

\* C23: a registration touches only its own name: with_field / optional_field
\* with meaning None leave the meaning map unchanged; with Some(m), and
\* with_known_meaning(path, m), the pointer of every other name is unchanged;
\* none of these calls changes log_namespaces.
C23_RegistrationTouchesOwnName ==
    RegistrationCall =>
        LET d == last.pre.val
        IN  /\ ~last.meaning.some => this.val.meaning = d.meaning
            /\ last.meaning.some =>
                   \A n \in Names \ {last.meaning.val} :
                       map_get(this.val.meaning, n) = map_get(d.meaning, n)
            /\ log_namespaces(this.val) = log_namespaces(d)

\* with_field registered y on a Definition that held a pointer for x: the
\* pointer of x is as before, that of y is the new one
C23_Witness ==
    /\ RegistrationCall
    /\ last.op = "with_field"
    /\ last.meaning = Some("y")
    /\ "x" \in MeaningNames(last.pre.val)
    /\ "y" \notin MeaningNames(last.pre.val)
    /\ map_get(this.val.meaning, "x") = map_get(last.pre.val.meaning, "x")
    /\ map_get(this.val.meaning, "y") = Some(Valid(last.path))
    /\ log_namespaces(this.val) # {}

====
